---- MODULE Spec2Model ----
(***************************************************************************)
(* survi_scenarios.trenchfoot_loader: the lazy import of the optional      *)
(* trenchfoot / trimesh dependencies, the scenario catalogue, the loading  *)
(* of a trench mesh as an SDFSurface, and the two truth functions          *)
(* (signed distance, normals) the surface carries.                         *)
(*                                                                         *)
(* Numbers.  A float is modelled as an integer count of units of 5e-10,    *)
(* so that the clamp 1e-9 of the normal fallback is 2 units and lengths    *)
(* below, at and above the clamp are all representable.  Two reserved      *)
(* values stand for the IEEE specials NaN and infinity.  A normalised      *)
(* vector v / d is kept as the pair [v, d] (d > 0), never rounded.         *)
(*                                                                         *)
(* trimesh and numpy are not part of the repository.  What they answer     *)
(* about a mesh (closest point, distance, triangle index, containment) is  *)
(* a table fixed for the life of the mesh and otherwise arbitrary; whether *)
(* they raise on non-finite input or pass it through is fixed per build.   *)
(***************************************************************************)
EXTENDS Integers, Sequences, FiniteSets, TLC

VARIABLES
    installed,                  \* packages importable right now (environment)
    _trenchfoot,                \* module global, "None" or "module"
    _trimesh,                   \* module global, "None" or "module"
    _trenchfoot_import_error,   \* module global, cached ImportError or NoError
    _trimesh_import_error,      \* module global, cached ImportError or NoError
    importLog,                  \* history: import statements executed so far
    fs,                         \* the scenarios directory of the trenchfoot package
    backend_rejects,            \* this build of trimesh/numpy raises on bad input
    prox,                       \* closest_point's answer for each query point
    inside,                     \* mesh.contains' answer for each query point
    surface,                    \* the SDFSurface the caller holds (or Unbuilt)
    last                        \* the most recent call: what, with what, outcome
                                \* (imports: import statements it executed)

vars == <<installed, _trenchfoot, _trimesh, _trenchfoot_import_error,
          _trimesh_import_error, importLog, fs, backend_rejects, prox,
          inside, surface, last>>

-----------------------------------------------------------------------------
(* Bounds of the model                                                     *)

MaxBatch == 2

-----------------------------------------------------------------------------
(* Floats                                                                  *)

NaN == 2000000000
Inf == 1999999999

\* 1e-9, the floor of the fallback denominator, in units of 5e-10
Eps == 2

\* 0.15, the padding of the bounds, in units of 5e-10
padding == 300000000

IsFinite(x) == x # NaN /\ x # Inf

FNeg(x) == IF IsFinite(x) THEN 0 - x ELSE NaN
FAdd(x, y) == IF IsFinite(x) /\ IsFinite(y) THEN x + y ELSE NaN
FSub(x, y) == IF IsFinite(x) /\ IsFinite(y) THEN x - y ELSE NaN
FMul(x, y) == IF IsFinite(x) /\ IsFinite(y) THEN x * y ELSE NaN
\* a comparison with NaN is False
FLess(x, y) == IsFinite(x) /\ IsFinite(y) /\ x < y
\* np.minimum / np.maximum propagate NaN
FMin(x, y) == IF IsFinite(x) /\ IsFinite(y) THEN (IF x < y THEN x ELSE y) ELSE NaN
FMax(x, y) == IF IsFinite(x) /\ IsFinite(y) THEN (IF x > y THEN x ELSE y) ELSE NaN

ISqrt(n) == CHOOSE r \in 0..n : r * r <= n /\ n < (r + 1) * (r + 1)

VecSub(a, b) == [k \in 1..3 |-> FSub(a[k], b[k])]
VecNeg(a) == [k \in 1..3 |-> FNeg(a[k])]
Dot(a, b) == FAdd(FAdd(FMul(a[1], b[1]), FMul(a[2], b[2])), FMul(a[3], b[3]))
Norm(a) == LET s == Dot(a, a) IN IF IsFinite(s) THEN ISqrt(s) ELSE NaN
NaNVec == <<NaN, NaN, NaN>>

\* np.clip(x, lo, hi): minimum(maximum(x, lo), hi)
Clip(x, lo, hi) ==
    LET a == IF x < lo THEN lo ELSE x IN IF a > hi THEN hi ELSE a
\* np.clip(x, lo, None)
ClipMin(x, lo) == IF ~IsFinite(x) THEN NaN ELSE IF x < lo THEN lo ELSE x
\* the vector v / d
Quot(v, d) == [v |-> v, d |-> d]

-----------------------------------------------------------------------------
(* Exceptions                                                              *)

NoError == [type |-> "None", about |-> "None", serial |-> 0, detail |-> <<>>]
ImportError(pkg, n) ==
    [type |-> "ImportError", about |-> pkg, serial |-> n, detail |-> <<>>]
ValueError(what, detail) ==
    [type |-> "ValueError", about |-> what, serial |-> 0, detail |-> detail]
\* an exception raised inside trimesh or numpy and propagated unchanged
BackendError(what) ==
    [type |-> "BackendError", about |-> what, serial |-> 0, detail |-> <<>>]

-----------------------------------------------------------------------------
(* The lazy import                                                         *)

\* the four module globals and the import history, as one value
Globals ==
    [tf |-> _trenchfoot, tm |-> _trimesh,
     tfErr |-> _trenchfoot_import_error, tmErr |-> _trimesh_import_error,
     log |-> importLog]

Returned(g, ret) == [g |-> g, raised |-> NoError, ret |-> ret]
Raised(g, err) == [g |-> g, raised |-> err, ret |-> <<>>]

\* import trenchfoot as tf; _trenchfoot = tf / except ImportError: cache, raise
import_trenchfoot(g) ==
    IF "trenchfoot" \in installed
    THEN Returned([g EXCEPT !.tf = "module",
                            !.log.attempts = @ + 1,
                            !.log.trenchfoot = @ + 1], <<>>)
    ELSE LET err == ImportError("trenchfoot", g.log.errors + 1)
         IN Raised([g EXCEPT !.tfErr = err,
                             !.log.attempts = @ + 1,
                             !.log.errors = @ + 1], err)

\* import trimesh; _trimesh = trimesh / except ImportError: cache, raise
import_trimesh(g) ==
    IF "trimesh" \in installed
    THEN Returned([g EXCEPT !.tm = "module",
                            !.log.attempts = @ + 1,
                            !.log.trimesh = @ + 1], <<>>)
    ELSE LET err == ImportError("trimesh", g.log.errors + 1)
         IN Raised([g EXCEPT !.tmErr = err,
                             !.log.attempts = @ + 1,
                             !.log.errors = @ + 1], err)

\* mutant: the cached errors are not consulted, a failed import is tried again
_ensure_trenchfoot_retry(g) ==
    LET a == IF g.tf = "None" THEN import_trenchfoot(g) ELSE Returned(g, <<>>)
    IN IF a.raised # NoError THEN a
       ELSE IF a.g.tm = "None" THEN import_trimesh(a.g)
       ELSE a

_ensure_trenchfoot(g) ==
    IF g.tfErr # NoError THEN Raised(g, g.tfErr)
    ELSE IF g.tmErr # NoError THEN Raised(g, g.tmErr)
    ELSE LET a == IF g.tf = "None" THEN import_trenchfoot(g) ELSE Returned(g, <<>>)
         IN IF a.raised # NoError THEN a
            ELSE IF a.g.tm = "None" THEN import_trimesh(a.g)
            ELSE a

-----------------------------------------------------------------------------
(* The scenario catalogue                                                  *)

\* scenario names, by their rank in sorted order
ScenarioNames == {1, 2}
DefaultVariant == "trench_scene.obj"
CulledVariant == "meshes/trench_scene_culled.obj"
\* what a caller may pass as mesh_variant
Variants == {DefaultVariant, CulledVariant, "other.obj"}

DirStates ==
    [exists : {TRUE}, files : SUBSET {DefaultVariant, CulledVariant}]
    \cup {[exists |-> FALSE, files |-> {}]}

FileSystems ==
    {f \in [root : BOOLEAN, dirs : [ScenarioNames -> DirStates]] :
        ~f.root => \A n \in ScenarioNames : ~f.dirs[n].exists}

SortedSeq(S) ==
    CHOOSE s \in [1..Cardinality(S) -> S] :
        \A i, j \in 1..Cardinality(S) : i < j => s[i] < s[j]

_get_scenarios_path(g) ==
    LET e == _ensure_trenchfoot(g)
    IN IF e.raised # NoError THEN e ELSE Returned(e.g, <<"scenarios">>)

list_trenchfoot_scenarios_fn(g) ==
    LET e == _ensure_trenchfoot(g)
    IN IF e.raised # NoError THEN e
       ELSE LET p == _get_scenarios_path(e.g)
            IN IF p.raised # NoError THEN p
               ELSE IF ~fs.root THEN Returned(p.g, <<>>)
               ELSE Returned(p.g,
                        SortedSeq({n \in ScenarioNames :
                                      /\ fs.dirs[n].exists
                                      /\ DefaultVariant \in fs.dirs[n].files}))

-----------------------------------------------------------------------------
(* Meshes, as trimesh hands them to the loader                             *)

\* face indices are 0-based, as in numpy
GoodMesh ==
    [vertices |-> << <<0, 0, 0>>, <<4, 0, 0>>, <<0, 4, 0>>, <<0, 0, 4>> >>,
     faces |-> << <<0, 1, 2>>, <<0, 2, 3>> >>,
     face_normals |-> << <<0, 0, 1>>, <<1, 0, 0>> >>]
NoFacesMesh ==
    [vertices |-> << <<0, 0, 0>>, <<4, 0, 0>>, <<0, 4, 0>> >>,
     faces |-> <<>>, face_normals |-> <<>>]
EmptyMesh == [vertices |-> <<>>, faces |-> <<>>, face_normals |-> <<>>]
NaNMesh ==
    [vertices |-> << <<0, 0, 0>>, <<4, NaN, 0>>, <<0, 4, 0>> >>,
     faces |-> << <<0, 1, 2>> >>, face_normals |-> << <<0, 0, 1>> >>]
InfMesh ==
    [vertices |-> << <<0, 0, 0>>, <<4, 0, 0>>, <<0, Inf, 0>> >>,
     faces |-> << <<0, 1, 2>> >>, face_normals |-> << <<0, 0, 1>> >>]
BadIndexMesh ==
    [vertices |-> << <<0, 0, 0>>, <<4, 0, 0>>, <<0, 4, 0>> >>,
     faces |-> << <<0, 1, 3>> >>, face_normals |-> << <<0, 0, 1>> >>]
\* no mesh was loaded
NoMesh == [vertices |-> <<>>, faces |-> <<>>, face_normals |-> << <<0, 0, 0>> >>]

\* what a mesh file of the package may hold
MeshFiles == {GoodMesh, NoFacesMesh, EmptyMesh, NaNMesh, InfMesh, BadIndexMesh}

WellFormedMesh(m) ==
    /\ Len(m.faces) >= 1
    /\ \A i \in 1..Len(m.vertices) : \A k \in 1..3 : IsFinite(m.vertices[i][k])
    /\ \A f \in 1..Len(m.faces) :
          \A k \in 1..3 : m.faces[f][k] \in 0..(Len(m.vertices) - 1)

\* np.min(coords, axis=0)[k] and np.max(coords, axis=0)[k], coords not empty
RECURSIVE ColMin(_, _, _)
ColMin(coords, k, n) ==
    IF n = 1 THEN coords[1][k] ELSE FMin(ColMin(coords, k, n - 1), coords[n][k])
RECURSIVE ColMax(_, _, _)
ColMax(coords, k, n) ==
    IF n = 1 THEN coords[1][k] ELSE FMax(ColMax(coords, k, n - 1), coords[n][k])

Unbuilt == [state |-> "Unbuilt"]

\* lines 135-153 and 193-230: the value object built around the loaded mesh
SDFSurface(name, mesh_variant, mesh) ==
    LET coords == mesh.vertices
        n == Len(coords)
    IN [state |-> "Ready",
        name |-> name,
        mesh |-> mesh,
        raw_surface |-> coords,
        bounds |-> << [k \in 1..3 |-> FSub(ColMin(coords, k, n), padding)],
                      [k \in 1..3 |-> FAdd(ColMax(coords, k, n), padding)] >>,
        metadata |-> [scenario |-> name, mesh_variant |-> mesh_variant,
                      vertex_count |-> n, face_count |-> Len(mesh.faces)]]

\* _trimesh.load(str(mesh_path), force="mesh"); mesh.fix_normals()
trimesh_load(content) ==
    IF ~WellFormedMesh(content) /\ backend_rejects
    THEN [raised |-> BackendError("load"), mesh |-> NoMesh]
    ELSE [raised |-> NoError, mesh |-> content]

\* mutant: the mesh file is looked for before the scenario directory
load_trenchfoot_scenario_fn_swapped(g, name, mesh_variant, content) ==
    LET e == _ensure_trenchfoot(g)
    IN IF e.raised # NoError THEN e
       ELSE LET p == _get_scenarios_path(e.g)
            IN IF p.raised # NoError THEN p
               ELSE IF mesh_variant \notin fs.dirs[name].files
               THEN Raised(p.g, ValueError("MeshNotFound", <<>>))
               ELSE IF ~fs.dirs[name].exists
               THEN LET available == list_trenchfoot_scenarios_fn(p.g)
                    IN IF available.raised # NoError THEN available
                       ELSE Raised(available.g,
                                ValueError("UnknownScenario", available.ret))
               ELSE LET m == trimesh_load(content)
                    IN IF m.raised # NoError THEN Raised(p.g, m.raised)
                       ELSE IF Len(m.mesh.vertices) = 0
                       THEN Raised(p.g, ValueError("EmptyReduction", <<>>))
                       ELSE Returned(p.g, SDFSurface(name, mesh_variant, m.mesh))

\* content: what the mesh file on disk holds
load_trenchfoot_scenario_fn(g, name, mesh_variant, content) ==
    LET e == _ensure_trenchfoot(g)
    IN IF e.raised # NoError THEN e
       ELSE LET p == _get_scenarios_path(e.g)
            IN IF p.raised # NoError THEN p
               ELSE IF ~fs.dirs[name].exists
               THEN LET available == list_trenchfoot_scenarios_fn(p.g)
                    IN IF available.raised # NoError THEN available
                       ELSE Raised(available.g,
                                ValueError("UnknownScenario", available.ret))
               ELSE IF mesh_variant \notin fs.dirs[name].files
               THEN Raised(p.g, ValueError("MeshNotFound", <<>>))
               ELSE LET m == trimesh_load(content)
                    IN IF m.raised # NoError THEN Raised(p.g, m.raised)
                       ELSE IF Len(m.mesh.vertices) = 0
                       THEN Raised(p.g, ValueError("EmptyReduction", <<>>))
                       ELSE Returned(p.g, SDFSurface(name, mesh_variant, m.mesh))

-----------------------------------------------------------------------------
(* The calls, as steps of the program                                      *)

NoCall ==
    [call |-> "none", name |-> 0, mesh_variant |-> "none", content |-> NoMesh,
     batch |-> <<>>, imports |-> 0, raised |-> NoError, ret |-> <<>>]

\* the module globals after a call, and the record of the call
Finish(r, call, name, mesh_variant, content, batch) ==
    /\ _trenchfoot' = r.g.tf
    /\ _trimesh' = r.g.tm
    /\ _trenchfoot_import_error' = r.g.tfErr
    /\ _trimesh_import_error' = r.g.tmErr
    /\ importLog' = r.g.log
    /\ last' = [call |-> call, name |-> name, mesh_variant |-> mesh_variant,
                content |-> content, batch |-> batch,
                imports |-> r.g.log.attempts - importLog.attempts,
                raised |-> r.raised, ret |-> r.ret]

\* the environment: a dependency is installed or removed between calls
SetInstalled ==
    /\ \E s \in SUBSET {"trenchfoot", "trimesh"} : installed' = s /\ s # installed
    /\ UNCHANGED <<_trenchfoot, _trimesh, _trenchfoot_import_error,
                   _trimesh_import_error, importLog, fs, backend_rejects,
                   prox, inside, surface, last>>

get_scenarios_path ==
    /\ Finish(_get_scenarios_path(Globals), "_get_scenarios_path",
              0, "none", NoMesh, <<>>)
    /\ UNCHANGED <<installed, fs, backend_rejects, prox, inside, surface>>

list_trenchfoot_scenarios ==
    /\ Finish(list_trenchfoot_scenarios_fn(Globals), "list_trenchfoot_scenarios",
              0, "none", NoMesh, <<>>)
    /\ UNCHANGED <<installed, fs, backend_rejects, prox, inside, surface>>

load_trenchfoot_scenario ==
    \E name \in ScenarioNames, mesh_variant \in Variants, content \in MeshFiles :
        LET r == load_trenchfoot_scenario_fn(Globals, name, mesh_variant, content)
            ok == r.raised = NoError
            \* the call got as far as _trimesh.load
            loaded == /\ r.raised.type # "ImportError"
                      /\ r.raised.about \notin {"UnknownScenario", "MeshNotFound"}
        IN /\ Finish([r EXCEPT !.ret = <<>>], "load_trenchfoot_scenario",
                     name, mesh_variant, IF loaded THEN content ELSE NoMesh, <<>>)
           /\ surface' = IF ok THEN r.ret ELSE surface
           /\ UNCHANGED <<installed, fs, backend_rejects, prox, inside>>

-----------------------------------------------------------------------------
(* Query points and the backend's answers about them                       *)

\* well-formed query points
QPoints == {<<0, 0, 1>>, <<1, 1, 5>>}
\* a point with a NaN and an infinite coordinate
NonFinitePoint == <<NaN, Inf, 0>>
\* a point of the wrong dimensionality
FlatPoint == <<0, 0>>
BatchPoints == QPoints \cup {NonFinitePoint, FlatPoint}

\* the batches a caller passes: up to MaxBatch points, at most one of them
\* malformed (at any position)
Batches ==
    {b \in UNION {[1..n -> BatchPoints] : n \in 0..MaxBatch} :
        Cardinality({i \in 1..Len(b) : b[i] \notin QPoints}) <= 1}

WellFormedPoint(p) == Len(p) = 3 /\ \A k \in 1..3 : IsFinite(p[k])
WellFormedBatch(points) == \A i \in 1..Len(points) : WellFormedPoint(points[i])
\* rows of different lengths: np.asarray(points, dtype=float) cannot build the array
Ragged(points) == \E i, j \in 1..Len(points) : Len(points[i]) # Len(points[j])

\* displacements query point - closest point the tables range over:
\* zero, below the clamp (length 1), above it (length 5)
Deltas == {<<0, 0, 0>>, <<0, 0, 1>>, <<-3, 0, -4>>}
\* triangle indices closest_point may report for GoodMesh; negative: none
TriIds == -1..(Len(GoodMesh.faces) - 1)

ProxTables ==
    {[p \in QPoints |->
        [closest |-> VecSub(p, c[p][1]), distance |-> Norm(c[p][1]), tri |-> c[p][2]]] :
     c \in [QPoints -> Deltas \X TriIds]}
InsideTables == [QPoints -> BOOLEAN]

\* what a backend that does not raise answers for a malformed point
NaNAnswer == [closest |-> NaNVec, distance |-> NaN, tri |-> -1]

\* _trimesh.proximity.closest_point(mesh, pts)
closest_point(pts) ==
    IF ~WellFormedBatch(pts) /\ backend_rejects
    THEN [raised |-> BackendError("closest_point"), ans |-> <<>>]
    ELSE [raised |-> NoError,
          ans |-> [i \in 1..Len(pts) |->
                      IF WellFormedPoint(pts[i]) THEN prox[pts[i]] ELSE NaNAnswer]]

\* mesh.contains(pts)
mesh_contains(pts) ==
    [i \in 1..Len(pts) |-> IF WellFormedPoint(pts[i]) THEN inside[pts[i]] ELSE FALSE]

Failed(err) == [raised |-> err, ret |-> <<>>]
Result(ret) == [raised |-> NoError, ret |-> ret]

-----------------------------------------------------------------------------
(* truth_phi                                                               *)

\* mutant: the sign is read off the nearest triangle's orientation
_phi_fn_orient(points) ==
    IF Ragged(points) THEN Failed(BackendError("asarray"))
    ELSE LET cp == closest_point(points)
         IN IF cp.raised # NoError THEN Failed(cp.raised)
            ELSE LET n == Len(points)
                     fn == surface.mesh.face_normals
                     distances == [i \in 1..n |-> cp.ans[i].distance]
                     facing == [i \in 1..n |->
                                  Dot(VecSub(points[i], cp.ans[i].closest),
                                      fn[Clip(cp.ans[i].tri, 0, Len(fn) - 1) + 1])]
                     sign == [i \in 1..n |-> IF FLess(facing[i], 0) THEN -1 ELSE 1]
                 IN Result([i \in 1..n |-> FMul(distances[i], sign[i])])

_phi_fn(points) ==
    IF Ragged(points) THEN Failed(BackendError("asarray"))
    ELSE LET cp == closest_point(points)
         IN IF cp.raised # NoError THEN Failed(cp.raised)
            ELSE LET n == Len(points)
                     distances == [i \in 1..n |-> cp.ans[i].distance]
                     contains == mesh_contains(points)
                     sign == [i \in 1..n |-> IF contains[i] THEN -1 ELSE 1]
                 IN Result([i \in 1..n |-> FMul(distances[i], sign[i])])

-----------------------------------------------------------------------------
(* truth_normals                                                           *)

\* sum of the squares of the rows of delta selected by missing
RECURSIVE SumSq(_, _, _)
SumSq(delta, missing, n) ==
    IF n = 0 THEN 0
    ELSE FAdd(SumSq(delta, missing, n - 1),
              IF missing[n] THEN Dot(delta[n], delta[n]) ELSE 0)

\* mutant: np.linalg.norm without axis=1, one norm for the whole fallback array
_normals_fn_axis(mesh, points) ==
    IF Ragged(points) THEN Failed(BackendError("asarray"))
    ELSE LET cp == closest_point(points)
             n == Len(points)
             faces == Len(mesh.face_normals)
         IN IF cp.raised # NoError THEN Failed(cp.raised)
            \* indexing an empty face_normals array
            ELSE IF n > 0 /\ faces = 0 THEN Failed(BackendError("IndexError"))
            \* pts - closest_pts with (N, 2) against (N, 3)
            ELSE IF \E i \in 1..n : Len(points[i]) # 3
            THEN Failed(BackendError("broadcast"))
            ELSE LET tri_idx == [i \in 1..n |-> cp.ans[i].tri]
                     normals0 == [i \in 1..n |->
                                    mesh.face_normals[Clip(tri_idx[i], 0, faces - 1) + 1]]
                     delta == [i \in 1..n |-> VecSub(points[i], cp.ans[i].closest)]
                     flip == [i \in 1..n |-> FLess(Dot(delta[i], normals0[i]), 0)]
                     normals1 == [i \in 1..n |->
                                    IF flip[i] THEN VecNeg(normals0[i]) ELSE normals0[i]]
                     missing == [i \in 1..n |-> tri_idx[i] < 0]
                     total == SumSq(delta, missing, n)
                     fallback_norm == [i \in 1..n |->
                                         IF IsFinite(total) THEN ISqrt(total) ELSE NaN]
                 IN Result([i \in 1..n |->
                              IF missing[i]
                              THEN Quot(delta[i], ClipMin(fallback_norm[i], Eps))
                              ELSE Quot(normals1[i], 1)])

\* mutant: the orientation flip is left out
_normals_fn_noflip(mesh, points) ==
    IF Ragged(points) THEN Failed(BackendError("asarray"))
    ELSE LET cp == closest_point(points)
             n == Len(points)
             faces == Len(mesh.face_normals)
         IN IF cp.raised # NoError THEN Failed(cp.raised)
            \* indexing an empty face_normals array
            ELSE IF n > 0 /\ faces = 0 THEN Failed(BackendError("IndexError"))
            \* pts - closest_pts with (N, 2) against (N, 3)
            ELSE IF \E i \in 1..n : Len(points[i]) # 3
            THEN Failed(BackendError("broadcast"))
            ELSE LET tri_idx == [i \in 1..n |-> cp.ans[i].tri]
                     normals0 == [i \in 1..n |->
                                    mesh.face_normals[Clip(tri_idx[i], 0, faces - 1) + 1]]
                     delta == [i \in 1..n |-> VecSub(points[i], cp.ans[i].closest)]
                     flip == [i \in 1..n |-> FLess(Dot(delta[i], normals0[i]), 0)]
                     normals1 == [i \in 1..n |->
                                    normals0[i]]
                     missing == [i \in 1..n |-> tri_idx[i] < 0]
                     fallback_norm == [i \in 1..n |-> Norm(delta[i])]
                 IN Result([i \in 1..n |->
                              IF missing[i]
                              THEN Quot(delta[i], ClipMin(fallback_norm[i], Eps))
                              ELSE Quot(normals1[i], 1)])

_normals_fn(mesh, points) ==
    IF Ragged(points) THEN Failed(BackendError("asarray"))
    ELSE LET cp == closest_point(points)
             n == Len(points)
             faces == Len(mesh.face_normals)
         IN IF cp.raised # NoError THEN Failed(cp.raised)
            \* indexing an empty face_normals array
            ELSE IF n > 0 /\ faces = 0 THEN Failed(BackendError("IndexError"))
            \* pts - closest_pts with (N, 2) against (N, 3)
            ELSE IF \E i \in 1..n : Len(points[i]) # 3
            THEN Failed(BackendError("broadcast"))
            ELSE LET tri_idx == [i \in 1..n |-> cp.ans[i].tri]
                     normals0 == [i \in 1..n |->
                                    mesh.face_normals[Clip(tri_idx[i], 0, faces - 1) + 1]]
                     delta == [i \in 1..n |-> VecSub(points[i], cp.ans[i].closest)]
                     flip == [i \in 1..n |-> FLess(Dot(delta[i], normals0[i]), 0)]
                     normals1 == [i \in 1..n |->
                                    IF flip[i] THEN VecNeg(normals0[i]) ELSE normals0[i]]
                     missing == [i \in 1..n |-> tri_idx[i] < 0]
                     fallback_norm == [i \in 1..n |-> Norm(delta[i])]
                 IN Result([i \in 1..n |->
                              IF missing[i]
                              THEN Quot(delta[i], ClipMin(fallback_norm[i], Eps))
                              ELSE Quot(normals1[i], 1)])

-----------------------------------------------------------------------------
(* The two truth functions, called on the surface the caller holds         *)

Query(r, call, batch) ==
    /\ last' = [call |-> call, name |-> 0, mesh_variant |-> "none",
                content |-> NoMesh, batch |-> batch, imports |-> 0,
                raised |-> r.raised, ret |-> r.ret]
    /\ UNCHANGED <<installed, _trenchfoot, _trimesh, _trenchfoot_import_error,
                   _trimesh_import_error, importLog, fs, backend_rejects,
                   prox, inside, surface>>

truth_phi ==
    /\ surface.state = "Ready"
    /\ \E batch \in Batches : Query(_phi_fn(batch), "truth_phi", batch)

\* mutant: the rows are flipped in mesh.face_normals itself, not in a copy
truth_normals_inplace ==
    /\ surface.state = "Ready"
    /\ \E batch \in Batches :
          LET r == _normals_fn(surface.mesh, batch)
              fn == surface.mesh.face_normals
              hit == IF r.raised # NoError THEN {}
                     ELSE {Clip(prox[batch[i]].tri, 0, Len(fn) - 1) + 1 :
                             i \in {k \in 1..Len(batch) :
                                /\ WellFormedPoint(batch[k])
                                /\ FLess(Dot(VecSub(batch[k], prox[batch[k]].closest),
                                             fn[Clip(prox[batch[k]].tri, 0,
                                                     Len(fn) - 1) + 1]),
                                         0)}}
          IN /\ last' = [call |-> "truth_normals", name |-> 0,
                         mesh_variant |-> "none", content |-> NoMesh,
                         batch |-> batch, imports |-> 0,
                         raised |-> r.raised, ret |-> r.ret]
             /\ surface' = [surface EXCEPT !.mesh.face_normals =
                               [f \in 1..Len(fn) |->
                                  IF f \in hit THEN VecNeg(fn[f]) ELSE fn[f]]]
             /\ UNCHANGED <<installed, _trenchfoot, _trimesh,
                            _trenchfoot_import_error, _trimesh_import_error,
                            importLog, fs, backend_rejects, prox, inside>>

truth_normals ==
    /\ surface.state = "Ready"
    /\ \E batch \in Batches :
          Query(_normals_fn(surface.mesh, batch), "truth_normals", batch)

-----------------------------------------------------------------------------
(* Specifications                                                          *)

NoImports == [attempts |-> 0, trenchfoot |-> 0, trimesh |-> 0, errors |-> 0]

\* the loader: a fresh interpreter, any installation, any package contents
InitLoader ==
    /\ installed \in SUBSET {"trenchfoot", "trimesh"}
    /\ _trenchfoot = "None"
    /\ _trimesh = "None"
    /\ _trenchfoot_import_error = NoError
    /\ _trimesh_import_error = NoError
    /\ importLog = NoImports
    /\ fs \in FileSystems
    /\ backend_rejects \in BOOLEAN
    /\ prox = [p \in QPoints |-> [closest |-> p, distance |-> 0, tri |-> 0]]
    /\ inside = [p \in QPoints |-> FALSE]
    /\ surface = Unbuilt
    /\ last = NoCall

NextLoader ==
    \/ SetInstalled
    \/ get_scenarios_path
    \/ list_trenchfoot_scenarios
    \/ load_trenchfoot_scenario

SpecLoader == InitLoader /\ [][NextLoader]_vars

\* the oracle: the state after load_trenchfoot_scenario(1) returned a surface
\* built from a well-formed mesh, for every answer table of the backend
Init ==
    /\ installed = {"trenchfoot", "trimesh"}
    /\ _trenchfoot = "module"
    /\ _trimesh = "module"
    /\ _trenchfoot_import_error = NoError
    /\ _trimesh_import_error = NoError
    /\ importLog = [attempts |-> 2, trenchfoot |-> 1, trimesh |-> 1, errors |-> 0]
    /\ fs = [root |-> TRUE,
             dirs |-> [n \in ScenarioNames |->
                         [exists |-> TRUE, files |-> {DefaultVariant}]]]
    /\ backend_rejects \in BOOLEAN
    /\ prox \in ProxTables
    /\ inside \in InsideTables
    /\ surface = SDFSurface(1, DefaultVariant, GoodMesh)
    /\ last = [NoCall EXCEPT !.call = "load_trenchfoot_scenario", !.name = 1,
                             !.mesh_variant = DefaultVariant, !.content = GoodMesh]

Next ==
    \/ truth_phi
    \/ truth_normals

Spec == Init /\ [][Next]_vars

-----------------------------------------------------------------------------
(* Vocabulary of the properties                                            *)

PhiReturned == last.call = "truth_phi" /\ last.raised = NoError
NormalsReturned == last.call = "truth_normals" /\ last.raised = NoError
QueryCalled == last.call \in {"truth_phi", "truth_normals"}
LoadCalled == last.call = "load_trenchfoot_scenario"

\* the well-formed points of the last batch, by position
GoodAt == {i \in 1..Len(last.batch) : WellFormedPoint(last.batch[i])}
\* displacement of a well-formed point from its closest surface point
DeltaOf(p) == VecSub(p, prox[p].closest)
\* the face normal of the triangle reported for p (first face when none is)
FaceNormalOf(p) ==
    surface.mesh.face_normals[
        Clip(prox[p].tri, 0, Len(surface.mesh.face_normals) - 1) + 1]
StrictlyOutside(p) == ~inside[p] /\ Norm(DeltaOf(p)) > 0

\* q = [v, d] stands for v / d
UnitLength(q) ==
    /\ IsFinite(q.d) /\ q.d > 0
    /\ \A k \in 1..3 : IsFinite(q.v[k])
    /\ Dot(q.v, q.v) = q.d * q.d
SameVector(q, r) == \A k \in 1..3 : q.v[k] * r.d = r.v[k] * q.d

-----------------------------------------------------------------------------
(* C1: for every well-formed point of a batch phi answered, the value is   *)
(* the distance to the closest surface point, negated exactly when the     *)
(* containment test says inside; a point on the surface gets zero.  The    *)
(* orientation of the nearest triangle plays no part.                      *)
C1_PhiIsDistanceTimesContainmentSign ==
    PhiReturned =>
        /\ Len(last.ret) = Len(last.batch)
        /\ \A i \in GoodAt :
              LET p == last.batch[i]
                  d == Norm(DeltaOf(p))
              IN /\ inside[p] => last.ret[i] = 0 - d
                 /\ ~inside[p] => last.ret[i] = d
                 /\ d = 0 => last.ret[i] = 0

\* phi answered for a point inside the mesh that faces its nearest triangle
\* from the front, and the value is negative
C1_Witness ==
    /\ PhiReturned
    /\ \E i \in GoodAt :
          LET p == last.batch[i]
          IN /\ inside[p]
             /\ prox[p].tri >= 0
             /\ Dot(DeltaOf(p), FaceNormalOf(p)) > 0
             /\ last.ret[i] < 0

(* C2: every vector normals returns for a well-formed point has length 1,  *)
(* with or without a triangle index, with or without a displacement.       *)
C2_NormalsAreUnit ==
    NormalsReturned => \A i \in GoodAt : UnitLength(last.ret[i])

(* C3: a phi or normals call on a batch with a malformed point raises      *)
(* GeometryError and returns nothing.                                      *)
C3_MalformedBatchRaisesGeometryError ==
    (QueryCalled /\ ~WellFormedBatch(last.batch)) =>
        /\ last.raised.type = "GeometryError"
        /\ last.ret = <<>>

(* C4: loading a mesh with no triangle, a non-finite vertex or a triangle  *)
(* index out of range raises GeometryError, and no surface is ever Ready   *)
(* around such a mesh.                                                     *)
C4_MalformedMeshRaisesGeometryError ==
    /\ (LoadCalled /\ last.content # NoMesh /\ ~WellFormedMesh(last.content)) =>
          last.raised.type = "GeometryError"
    /\ surface.state = "Ready" => WellFormedMesh(surface.mesh)

(* C5: on a well-formed batch phi and normals return one result per point, *)
(* in order, and the result of a point is the same wherever it stands and  *)
(* whatever else the batch holds: within one call, and from one call to    *)
(* the next call of the same function.                                     *)
C5_Aligned ==
    (QueryCalled /\ last.raised = NoError /\ WellFormedBatch(last.batch)) =>
        /\ Len(last.ret) = Len(last.batch)
        /\ \A i, j \in 1..Len(last.batch) :
              last.batch[i] = last.batch[j] => last.ret[i] = last.ret[j]
C5_SamePointSameResult ==
    (/\ QueryCalled /\ last.raised = NoError /\ WellFormedBatch(last.batch)
     /\ last'.call = last.call /\ last'.raised = NoError
     /\ WellFormedBatch(last'.batch)) =>
        \A i \in 1..Len(last.batch) : \A j \in 1..Len(last'.batch) :
            last.batch[i] = last'.batch[j] => last.ret[i] = last'.ret[j]
C5_PointwiseResults == []C5_Aligned /\ [][C5_SamePointSameResult]_vars

\* normals answered a batch of two different points, both without a triangle
\* index, with two different vectors
C5_Witness ==
    /\ NormalsReturned
    /\ WellFormedBatch(last.batch)
    /\ Len(last.batch) = 2
    /\ last.batch[1] # last.batch[2]
    /\ prox[last.batch[1]].tri < 0 /\ prox[last.batch[2]].tri < 0
    /\ last.ret[1] # last.ret[2]

(* C6: no phi or normals call changes the surface (mesh, face normals,     *)
(* bounds) or what the backend answers about it, and the same call with    *)
(* the same batch gives the same outcome again.                            *)
C6_QueryStep ==
    /\ surface' = surface
    /\ prox' = prox /\ inside' = inside /\ backend_rejects' = backend_rejects
    /\ (last'.call = last.call /\ last'.batch = last.batch) =>
          (last'.raised = last.raised /\ last'.ret = last.ret)
C6_QueriesLeaveOracleUnchanged == [][C6_QueryStep]_vars

\* normals answered for a point whose face normal had to be flipped
C6_Witness ==
    /\ NormalsReturned
    /\ \E i \in GoodAt :
          LET p == last.batch[i]
          IN /\ prox[p].tri >= 0
             /\ Dot(DeltaOf(p), FaceNormalOf(p)) < 0
             /\ last.ret[i].v = VecNeg(FaceNormalOf(p))

(* C7: for a point strictly outside the mesh the vector normals returns    *)
(* does not point against the displacement from the closest surface point  *)
(* to the point, with a triangle index and without one.                    *)
C7_OutsideNormalPointsOutward ==
    NormalsReturned =>
        \A i \in GoodAt :
            StrictlyOutside(last.batch[i]) =>
                /\ last.ret[i].d > 0
                /\ Dot(last.ret[i].v, DeltaOf(last.batch[i])) >= 0

\* one batch with a point strictly outside whose face normal pointed against
\* the displacement, and a point strictly outside without a triangle index
C7_Witness ==
    /\ NormalsReturned
    /\ \E i, j \in GoodAt :
          /\ StrictlyOutside(last.batch[i])
          /\ prox[last.batch[i]].tri >= 0
          /\ Dot(DeltaOf(last.batch[i]), FaceNormalOf(last.batch[i])) < 0
          /\ StrictlyOutside(last.batch[j])
          /\ prox[last.batch[j]].tri < 0

-----------------------------------------------------------------------------
ScenarioMissing == ~fs.dirs[last.name].exists
MeshFileMissing == last.mesh_variant \notin fs.dirs[last.name].files
ImportsCached == _trenchfoot = "module" /\ _trimesh = "module"

(* C8, as stated: load raises ValueError and loads no mesh whenever the    *)
(* scenario directory or the mesh file is missing, the directory being     *)
(* looked for first.                                                       *)
C8_MissingRaisesValueError ==
    (LoadCalled /\ (ScenarioMissing \/ MeshFileMissing)) =>
        /\ last.raised.type = "ValueError"
        /\ last.content = NoMesh
        /\ ScenarioMissing => last.raised.about = "UnknownScenario"

(* C8, amended: the same, for the calls in which both imports succeed (a   *)
(* call in which one fails raises the ImportError before any lookup); the  *)
(* caller's surface is left as it was.                                     *)
C8_LoadStep ==
    \* a call, not a change of the installation
    (/\ installed' = installed
     /\ last'.call = "load_trenchfoot_scenario"
     /\ _trenchfoot' = "module" /\ _trimesh' = "module"
     /\ \/ ~fs.dirs[last'.name].exists
        \/ last'.mesh_variant \notin fs.dirs[last'.name].files) =>
        /\ last'.raised.type = "ValueError"
        /\ last'.content = NoMesh
        /\ surface' = surface
        /\ ~fs.dirs[last'.name].exists =>
              last'.raised.about = "UnknownScenario"
        /\ fs.dirs[last'.name].exists => last'.raised.about = "MeshNotFound"
C8_MissingRaisesValueErrorOnceImported == [][C8_LoadStep]_vars

\* load was called, imports in place, for a missing scenario directory (so a
\* missing mesh file too) and raised the unknown-scenario error
C8_Witness ==
    /\ LoadCalled
    /\ ImportsCached
    /\ ScenarioMissing /\ MeshFileMissing
    /\ last.raised = ValueError("UnknownScenario", last.raised.detail)

(* C9: without a triangle index, normals returns the displacement scaled   *)
(* to length 1, and for a near-zero displacement (below the clamp) the     *)
(* face normal of the nearest triangle, not flipped.                       *)
C9_FallbackNormal ==
    NormalsReturned =>
        \A i \in GoodAt :
            LET p == last.batch[i]
                len == Norm(DeltaOf(p))
            IN prox[p].tri < 0 =>
                  IF len < Eps
                  THEN SameVector(last.ret[i], Quot(FaceNormalOf(p), 1))
                  ELSE SameVector(last.ret[i], Quot(DeltaOf(p), len))
                       /\ UnitLength(last.ret[i])

(* C10: (1) no module is cached together with its import error; (2) once   *)
(* an import error is cached, every call raises that very error and no     *)
(* import statement runs again, whatever is installed by then; (3) a call  *)
(* returns only with both modules cached, and each module is imported      *)
(* successfully at most once.                                              *)
CachedError ==
    IF _trenchfoot_import_error # NoError THEN _trenchfoot_import_error
    ELSE _trimesh_import_error
LoaderCalled ==
    last.call \in {"_get_scenarios_path", "list_trenchfoot_scenarios",
                   "load_trenchfoot_scenario"}
C10_State ==
    /\ ~(_trenchfoot = "module" /\ _trenchfoot_import_error # NoError)
    /\ ~(_trimesh = "module" /\ _trimesh_import_error # NoError)
    /\ CachedError # NoError => (LoaderCalled /\ last.raised = CachedError)
    /\ (LoaderCalled /\ last.raised = NoError) => ImportsCached
    /\ importLog.trenchfoot <= 1 /\ importLog.trimesh <= 1
C10_Step ==
    CachedError # NoError =>
        /\ importLog' = importLog
        /\ _trenchfoot_import_error' = _trenchfoot_import_error
        /\ _trimesh_import_error' = _trimesh_import_error
        /\ _trenchfoot' = _trenchfoot /\ _trimesh' = _trimesh
        \* a call, not a change of the installation
        /\ installed' = installed =>
              (last'.raised = CachedError /\ last'.imports = 0)
C10_ImportCache == []C10_State /\ [][C10_Step]_vars

\* an import error is cached, its package is importable by now, and the last
\* call raised the cached error without running an import statement
C10_Witness ==
    /\ CachedError # NoError
    /\ CachedError.about \in installed
    /\ LoaderCalled
    /\ last.raised = CachedError
    /\ last.imports = 0

====
